---- MODULE Spec2Model ----
(***************************************************************************)
(* A model of src/src/blockchain.rs: key pairs, hash-then-sign and         *)
(* hash-then-verify, the signed Transaction record, and the proof-of-work  *)
(* search of Block::check_block / Block::mine_block.                       *)
(*                                                                         *)
(* The two dependencies are modelled at reduced size, by what they compute:*)
(*   - RSA (crate rsa, PKCS#1 v1.5 signatures) is textbook RSA over a      *)
(*     3-byte modulus: sign is EM^d mod n written as KeySize bytes, verify *)
(*     reads the signature bytes as a big-endian integer, raises it to e   *)
(*     mod n and compares the KeySize-byte result with the encoded digest. *)
(*   - SHA-256 over a signed message is a collision-free map from the      *)
(*     messages the model can form to a 2-byte digest; SHA-256 over a      *)
(*     block is a 32-byte digest fixed per nonce by the initial state.     *)
(***************************************************************************)
EXTENDS Integers, Sequences, FiniteSets, TLC

VARIABLES
  \* sign_message / verify_message harness (tests::test_signing_*)
  sigPc,        \* "start" | "signed" | "verified"
  message,      \* the message given to sign_message
  signer,       \* the key pair whose private key signed
  signed,       \* the signature exactly as sign_message returned it
  signature,    \* the signature vector the caller holds (may be edited)
  vmessage,     \* the message given to verify_message
  vkey,         \* the public key given to verify_message
  is_good,      \* the value verify_message returned
  \* Transaction harness (tests::test_transaction_*)
  txPc,         \* "start" | "built" | "verified"
  transaction,  \* the Transaction struct: sender, reciver, amount, uid, signature
  built,        \* the arguments of Transaction::new
  tx_good,      \* the value Transaction::verify returned
  edits,        \* number of edits made since signing / construction
  \* Block::mine_block
  overflow_checks, \* build profile: are integer overflow checks compiled in
  validNonces,  \* the nonces whose block digest meets the difficulty
  transactions, \* the transactions of the block being mined
  miner,        \* the miner's public key
  minePc,       \* "idle" | "next" | "body" | "found" | "rechecked" | "panicked"
  start,        \* RangeFrom<u64>.start of the for loop's iterator
  i,            \* the loop variable
  calls,        \* the nonces check_block was called with, in order
  ret,          \* the hash mine_block returned
  panic_msg,    \* the message of the panic that ended mine_block
  results       \* what check_block returned: nonce, is_valid, hash of every call

signVars == <<sigPc, message, signer, signed, signature, vmessage, vkey, is_good>>
txVars == <<txPc, transaction, built, tx_good>>
mineVars == <<overflow_checks, validNonces, transactions, miner, minePc, start,
              i, calls, results, ret, panic_msg>>
vars == <<signVars, txVars, edits, mineVars>>

(***************************************************************************)
(* Bounds of the model.                                                    *)
(***************************************************************************)
\* at most MaxEdits edits of a signature vector or of a transaction's fields
MaxEdits == 2
\* the nonce is NonceBits wide (u64 in the code): nonces are 0 .. 2^NonceBits - 1
NonceBits == 2

(***************************************************************************)
(* Key pairs: generate_key_pair.                                           *)
(***************************************************************************)
\* What RsaPrivateKey::new can return: a modulus n = p*q, the public
\* exponent e and the private exponent d = e^-1 mod (p-1)(q-1).
\* 2053*2467, 2281*2609, 1613*2203.
KeySeq ==
  << [n |-> 5064751, e |-> 65537, d |-> 416249],
     [n |-> 5951129, e |-> 65537, d |-> 5308673],
     [n |-> 3553439, e |-> 65537, d |-> 1124081] >>

\* RsaPublicKey::from(&private_key)
PublicKey(private_key) == [n |-> private_key.n, e |-> private_key.e]

\* generate_key_pair(): the set of (private_key, public_key) it can return
generate_key_pair ==
  { <<KeySeq[k], PublicKey(KeySeq[k])>> : k \in DOMAIN KeySeq }

PrivateKeys == { kp[1] : kp \in generate_key_pair }
PublicKeys == { kp[2] : kp \in generate_key_pair }

(***************************************************************************)
(* Debug formatting ({:?}) of the values that are signed.                  *)
(***************************************************************************)
\* An f64 is its class, its sign bit and its magnitude or NaN payload.
\* The amounts of the model: +-0.0, +-10.0, +-100.0 and two NaNs that
\* differ in their payload bits.
AmountSeq ==
  << [class |-> "finite", neg |-> FALSE, mag |-> 0,   payload |-> 0],
     [class |-> "finite", neg |-> TRUE,  mag |-> 0,   payload |-> 0],
     [class |-> "finite", neg |-> FALSE, mag |-> 10,  payload |-> 0],
     [class |-> "finite", neg |-> TRUE,  mag |-> 10,  payload |-> 0],
     [class |-> "finite", neg |-> FALSE, mag |-> 100, payload |-> 0],
     [class |-> "finite", neg |-> TRUE,  mag |-> 100, payload |-> 0],
     [class |-> "nan",    neg |-> FALSE, mag |-> 0,   payload |-> 0],
     [class |-> "nan",    neg |-> FALSE, mag |-> 0,   payload |-> 1] >>

Amounts == { AmountSeq[k] : k \in DOMAIN AmountSeq }
\* the uids of the model
UidSeq == <<0, 1, 2>>
Uids == { UidSeq[k] : k \in DOMAIN UidSeq }
Messages == <<"hello", "goodbye">>

\* <f64 as Debug>::fmt: every NaN prints as "NaN", whatever its sign and
\* payload; a finite value with no fraction prints its sign, its digits
\* and ".0" (so -0.0 prints "-0.0").
DebugF64(amount) ==
  IF amount.class = "nan"
    THEN "NaN"
    ELSE (IF amount.neg THEN "-" ELSE "") \o ToString(amount.mag) \o ".0"

\* <u64 as Debug>::fmt
DebugU64(uid) == ToString(uid)

\* <RsaPublicKey as Debug>::fmt (derived): the struct's name and its fields
DebugKey(public_key) ==
  "RsaPublicKey { n: " \o ToString(public_key.n)
     \o ", e: " \o ToString(public_key.e) \o " }"

\* format!("{:?} {:?} {:?} {:?}", sender, reciver, amount, uid)
TransactionString(sender, reciver, amount, uid) ==
  DebugKey(sender) \o " " \o DebugKey(reciver) \o " "
     \o DebugF64(amount) \o " " \o DebugU64(uid)

(***************************************************************************)
(* SHA-256 of a signed message.                                            *)
(***************************************************************************)
\* Every string the model can hash when signing or verifying: the test
\* messages, then the transaction string of every choice of fields.
NumKeys == Len(KeySeq)
NumAmounts == Len(AmountSeq)
NumUids == Len(UidSeq)

TransactionStringAt(k) ==
  TransactionString(PublicKey(KeySeq[(k % NumKeys) + 1]),
                    PublicKey(KeySeq[((k \div NumKeys) % NumKeys) + 1]),
                    AmountSeq[((k \div (NumKeys * NumKeys)) % NumAmounts) + 1],
                    UidSeq[(k \div (NumKeys * NumKeys * NumAmounts)) + 1])

KnownStrings ==
  [ k \in 1..(Len(Messages) + NumKeys * NumKeys * NumAmounts * NumUids) |->
      IF k <= Len(Messages) THEN Messages[k]
                            ELSE TransactionStringAt(k - Len(Messages) - 1) ]

\* Sha256::new(); update(message); finalize(): a digest that depends on the
\* bytes of the message alone, and differs for different messages (no
\* collision among the strings of the model). Two bytes, big-endian.
Sha256(msg) ==
  LET h == CHOOSE k \in DOMAIN KnownStrings : KnownStrings[k] = msg
  IN  << h \div 256, h % 256 >>

(***************************************************************************)
(* RSA with PKCS#1 v1.5 signature padding (crate rsa).                     *)
(***************************************************************************)
\* a * b mod n without leaving 32 bits (a, b < n < 2^23): b is taken one
\* byte at a time
MulMod(a, b, n) ==
  LET t2 == (a * (b \div 65536)) % n
      t1 == (((t2 * 256) % n) + ((a * ((b \div 256) % 256)) % n)) % n
  IN  (((t1 * 256) % n) + ((a * (b % 256)) % n)) % n

\* BigUint::modpow, by squaring: pw[x] is base^x mod n
ModPow(base, exp, n) ==
  LET sqr[h \in 0..n] == MulMod(h, h, n)
      mul[h \in 0..n] == MulMod(h, base % n, n)
      pw[x \in 0..exp] ==
        IF x = 0 THEN 1 % n
        ELSE IF x % 2 = 1 THEN mul[sqr[pw[x \div 2]]]
        ELSE sqr[pw[x \div 2]]
  IN  pw[exp]

\* PublicKeyParts::size: the length of the modulus in bytes
RECURSIVE ByteLen(_)
ByteLen(n) == IF n = 0 THEN 0 ELSE 1 + ByteLen(n \div 256)

KeySize(key) == ByteLen(key.n)

\* BigUint::from_bytes_be followed by reduction mod n: the verifier only
\* ever uses the signature's integer inside modpow(e, n), where c and
\* c mod n give the same result. Leading zero bytes do not change the
\* integer; the empty sequence is 0.
RECURSIVE BytesModN(_, _)
BytesModN(bytes, n) ==
  IF bytes = <<>> THEN 0
  ELSE (MulMod(BytesModN(SubSeq(bytes, 1, Len(bytes) - 1), n), 256 % n, n)
          + bytes[Len(bytes)]) % n

\* the integer v as k big-endian bytes (left-padded with zeros)
RECURSIVE IntToBytes(_, _)
IntToBytes(v, k) ==
  IF k = 0 THEN <<>> ELSE Append(IntToBytes(v \div 256, k - 1), v % 256)

\* EMSA-PKCS1-v1_5 at the model's size: the block type byte 0x01, then the
\* digest (the leading 0x00, the 0xFF padding string and the DigestInfo
\* prefix of the full-size encoding are constant bytes around them). The
\* encoded message is below every modulus of KeySeq.
EncodedMessage(hashed) == <<1>> \o hashed

\* RsaPrivateKey::sign(padding, hashed): Ok(EM^d mod n as KeySize bytes)
RsaSign(private_key, hashed) ==
  IntToBytes(ModPow(BytesModN(EncodedMessage(hashed), private_key.n),
                    private_key.d, private_key.n),
             KeySize(private_key))

\* RsaVerify with the digest comparison left out: only the block type
\* byte of the recovered encoding is checked.
RsaVerify_NoDigestCompare(public_key, hashed, sig) ==
  LET c == BytesModN(sig, public_key.n)
      em == IntToBytes(ModPow(c, public_key.e, public_key.n), KeySize(public_key))
  IN  IF em[1] = 1 THEN "Ok" ELSE "Err"

\* RsaPublicKey::verify(padding, hashed, sig): the signature bytes are
\* read as an integer c, whatever their number; c^e mod n is written as
\* KeySize bytes and compared with the encoded message. "Ok" or "Err".
RsaVerify(public_key, hashed, sig) ==
  LET c == BytesModN(sig, public_key.n)
      em == IntToBytes(ModPow(c, public_key.e, public_key.n), KeySize(public_key))
  IN  IF em = EncodedMessage(hashed) THEN "Ok" ELSE "Err"

(***************************************************************************)
(* sign_message, verify_message.                                           *)
(***************************************************************************)
sign_message(msg, private_key) ==
  LET hash == Sha256(msg)
  IN  RsaSign(private_key, hash)

\* verify_message with the arms of the match exchanged
verify_message_ArmsSwapped(msg, sig, public_key) ==
  LET hash == Sha256(msg)
  IN  CASE RsaVerify(public_key, hash, sig) = "Ok" -> FALSE
        [] RsaVerify(public_key, hash, sig) = "Err" -> TRUE

verify_message(msg, sig, public_key) ==
  LET hash == Sha256(msg)
  IN  CASE RsaVerify(public_key, hash, sig) = "Ok" -> TRUE
        [] RsaVerify(public_key, hash, sig) = "Err" -> FALSE

(***************************************************************************)
(* The signing harness: tests::test_signing_correct, _message_change and   *)
(* _bad_signature, with every message, key and edit of the signature.      *)
(***************************************************************************)
NoKey == [n |-> 0, e |-> 0, d |-> 0]
MessageSet == { Messages[k] : k \in DOMAIN Messages }
\* byte values written into a signature vector
EditBytes == {0, 15, 16, 255}

\* let signature = sign_message(message, &private_key);
SignMessage(msg, private_key) ==
  /\ sigPc = "start"
  /\ sigPc' = "signed"
  /\ message' = msg
  /\ signer' = private_key
  /\ signed' = sign_message(msg, private_key)
  /\ signature' = sign_message(msg, private_key)
  /\ edits' = 0
  /\ UNCHANGED <<vmessage, vkey, is_good>>

\* signature[idx] = byte;
SetSignatureByte(idx, byte) ==
  /\ sigPc \in {"signed", "verified"}
  /\ edits < MaxEdits
  /\ idx \in DOMAIN signature
  /\ signature' = [signature EXCEPT ![idx] = byte]
  /\ sigPc' = "signed"
  /\ edits' = edits + 1
  /\ UNCHANGED <<message, signer, signed, vmessage, vkey, is_good>>

\* a signature vector of another length: signature.insert(0, byte),
\* signature.push(byte), signature.pop(), signature.clear()
ResizeSignature(byte) ==
  /\ sigPc \in {"signed", "verified"}
  /\ edits < MaxEdits
  /\ \/ signature' = <<byte>> \o signature
     \/ signature' = Append(signature, byte)
     \/ signature # <<>> /\ signature' = SubSeq(signature, 1, Len(signature) - 1)
     \/ signature # <<>> /\ signature' = <<>>
  /\ sigPc' = "signed"
  /\ edits' = edits + 1
  /\ UNCHANGED <<message, signer, signed, vmessage, vkey, is_good>>

\* let is_good = verify_message(msg, &signature, &public_key);
VerifyMessage(msg, public_key) ==
  /\ sigPc \in {"start", "signed", "verified"}
  /\ sigPc' = "verified"
  /\ vmessage' = msg
  /\ vkey' = public_key
  /\ is_good' = verify_message(msg, signature, public_key)
  /\ UNCHANGED <<message, signer, signed, signature, edits>>

(***************************************************************************)
(* Transaction.                                                            *)
(***************************************************************************)
\* Transaction::new storing the public key of sender_private_key as the
\* sender, whatever sender it was given
TransactionNew_SenderFromKey(sender, sender_private_key, reciver, amount, uid) ==
  LET from_key == PublicKey(sender_private_key)
      transaction_string == TransactionString(from_key, reciver, amount, uid)
      sig == sign_message(transaction_string, sender_private_key)
  IN  [sender |-> from_key, reciver |-> reciver, amount |-> amount,
       uid |-> uid, signature |-> sig]

\* Transaction::new: the fields are formatted, the string is signed with
\* sender_private_key, and the struct keeps the fields and the signature.
TransactionNew(sender, sender_private_key, reciver, amount, uid) ==
  LET transaction_string == TransactionString(sender, reciver, amount, uid)
      sig == sign_message(transaction_string, sender_private_key)
  IN  [sender |-> sender, reciver |-> reciver, amount |-> amount,
       uid |-> uid, signature |-> sig]

\* Transaction::verify formatting reciver before sender
TransactionVerify_FieldsSwapped(self) ==
  LET transaction_string ==
        TransactionString(self.reciver, self.sender, self.amount, self.uid)
  IN  verify_message(transaction_string, self.signature, self.sender)

\* Transaction::verify: the current fields are formatted and the stored
\* signature is verified against that string with self.sender.
TransactionVerify(self) ==
  LET transaction_string ==
        TransactionString(self.sender, self.reciver, self.amount, self.uid)
  IN  verify_message(transaction_string, self.signature, self.sender)

(***************************************************************************)
(* The transaction harness: tests::test_transaction_correct and            *)
(* _change_amount, _change_reciver, _change_uid, with every choice of      *)
(* keys, amount and uid and every edit of a field.                         *)
(***************************************************************************)
NoTransaction ==
  [sender |-> PublicKey(NoKey), reciver |-> PublicKey(NoKey),
   amount |-> AmountSeq[1], uid |-> 0, signature |-> <<>>]
NoArguments ==
  [sender |-> PublicKey(NoKey), sender_private_key |-> NoKey,
   reciver |-> PublicKey(NoKey), amount |-> AmountSeq[1], uid |-> 0]

\* let mut transaction = Transaction::new(sender, private_key, reciver, amount, uid);
NewTransaction(sender, sender_private_key, reciver, amount, uid) ==
  /\ txPc = "start"
  /\ txPc' = "built"
  /\ transaction' = TransactionNew(sender, sender_private_key, reciver, amount, uid)
  /\ built' = [sender |-> sender, sender_private_key |-> sender_private_key,
               reciver |-> reciver, amount |-> amount, uid |-> uid]
  /\ edits' = 0
  /\ UNCHANGED tx_good

\* transaction.amount = amount;
SetAmount(amount) ==
  /\ txPc \in {"built", "verified"}
  /\ edits < MaxEdits
  /\ transaction' = [transaction EXCEPT !.amount = amount]
  /\ txPc' = "built"
  /\ edits' = edits + 1
  /\ UNCHANGED <<built, tx_good>>

\* transaction.reciver = public_key;
SetReciver(public_key) ==
  /\ txPc \in {"built", "verified"}
  /\ edits < MaxEdits
  /\ transaction' = [transaction EXCEPT !.reciver = public_key]
  /\ txPc' = "built"
  /\ edits' = edits + 1
  /\ UNCHANGED <<built, tx_good>>

\* transaction.uid = uid;
SetUid(uid) ==
  /\ txPc \in {"built", "verified"}
  /\ edits < MaxEdits
  /\ transaction' = [transaction EXCEPT !.uid = uid]
  /\ txPc' = "built"
  /\ edits' = edits + 1
  /\ UNCHANGED <<built, tx_good>>

\* transaction.sender = public_key;
SetSender(public_key) ==
  /\ txPc \in {"built", "verified"}
  /\ edits < MaxEdits
  /\ transaction' = [transaction EXCEPT !.sender = public_key]
  /\ txPc' = "built"
  /\ edits' = edits + 1
  /\ UNCHANGED <<built, tx_good>>

\* let is_good = transaction.verify();
VerifyTransaction ==
  /\ txPc = "built"
  /\ txPc' = "verified"
  /\ tx_good' = TransactionVerify(transaction)
  /\ UNCHANGED <<transaction, built, edits>>

(***************************************************************************)
(* Block: check_block and mine_block.                                      *)
(***************************************************************************)
\* pub type SHA256Hash = [u8; 32]
HashLen == 32
\* for i in 0..4: the number of leading bytes that must be zero
Difficulty == 4

RECURSIVE Pow2(_)
Pow2(k) == IF k = 0 THEN 1 ELSE 2 * Pow2(k - 1)

\* the values of the nonce's integer type; MaxNonce is u64::MAX
NumNonces == Pow2(NonceBits)
MaxNonce == NumNonces - 1
Nonces == 0..MaxNonce
\* calls keeps the first MaxCalls calls of check_block
MaxCalls == NumNonces + 1

KeyIndex(public_key) ==
  CHOOSE k \in DOMAIN KeySeq : PublicKey(KeySeq[k]) = public_key

\* the blocks that are mined: no transaction or one, and any miner
BlockTransactions ==
  { <<>>,
    << TransactionNew(PublicKey(KeySeq[1]), KeySeq[1], PublicKey(KeySeq[2]),
                      AmountSeq[3], 1) >> }

\* Sha256 of format!("{:?} {:?} {:?}", transactions, miner, nonce): 32
\* bytes that depend on the three values alone. Which nonces give a digest
\* with four leading zero bytes is a property of the hash function that the
\* initial state chooses (valid). A digest outside valid has one non-zero
\* byte among its first four, at index (nonce + 3) % 4; bytes 4..31 vary
\* with the nonce, the transactions and the miner in either case.
BlockSha256(valid, txs, miner_key, nonce) ==
  [ k \in 1..HashLen |->
      CASE k = ((nonce + 3) % Difficulty) + 1 /\ nonce \notin valid
             -> 1 + (nonce % 255)
        [] k = Difficulty + 1 + (nonce % (HashLen - Difficulty - 1)) -> nonce % 256
        [] k = HashLen -> 1 + Len(txs) * NumKeys + KeyIndex(miner_key)
        [] OTHER -> 0 ]

\* the loop of check_block written for i in 0..3
RECURSIVE IsZeros_ThreeBytes(_, _)
IsZeros_ThreeBytes(hash, k) ==
  IF k >= Difficulty - 1 THEN TRUE
  ELSE IF hash[k + 1] # 0 THEN FALSE
  ELSE IsZeros_ThreeBytes(hash, k + 1)

\* the loop of check_block from index k: is_zeros stays true unless one of
\* hash[k..4] is not zero
RECURSIVE IsZeros(_, _)
IsZeros(hash, k) ==
  IF k >= Difficulty THEN TRUE
  ELSE IF hash[k + 1] # 0 THEN FALSE
  ELSE IsZeros(hash, k + 1)

\* Block::check_block(&transactions, &miner, nonce) -> (bool, SHA256Hash)
check_block(valid, txs, miner_key, nonce) ==
  LET hash == BlockSha256(valid, txs, miner_key, nonce)
  IN  [nonce |-> nonce, is_valid |-> IsZeros(hash, 0), hash |-> hash]

NoHash == [k \in 1..HashLen |-> 0]

\* Block::mine_block(transactions, miner) is entered: for i in 0 as u64..
MineBlock ==
  /\ minePc = "idle"
  /\ minePc' = "next"
  /\ start' = 0
  /\ UNCHANGED <<overflow_checks, validNonces, transactions, miner, i, calls,
                 results, ret, panic_msg>>

\* RangeFrom<u64>::next: n = Step::forward(start, 1); the old start is
\* yielded and start becomes n. Step::forward at u64::MAX panics when
\* overflow checks are compiled in (before anything is yielded) and wraps
\* to 0 when they are not. next never returns None.
RangeFromNext ==
  /\ minePc = "next"
  /\ IF start = MaxNonce /\ overflow_checks
       THEN /\ minePc' = "panicked"
            /\ panic_msg' = "attempt to add with overflow"
            /\ UNCHANGED <<start, i>>
       ELSE /\ i' = start
            /\ start' = (start + 1) % NumNonces
            /\ minePc' = "body"
            /\ UNCHANGED panic_msg
  /\ UNCHANGED <<overflow_checks, validNonces, transactions, miner, calls,
                 results, ret>>

\* the loop body returning on the first nonce that is not correct
LoopBody_ReturnsOnFailure ==
  /\ minePc = "body"
  /\ LET r == check_block(validNonces, transactions, miner, i)
     IN  /\ calls' = IF Len(calls) < MaxCalls THEN Append(calls, i) ELSE calls
         /\ results' = results \cup {r}
         /\ IF ~r.is_valid
              THEN ret' = r.hash /\ minePc' = "found"
              ELSE ret' = ret /\ minePc' = "next"
  /\ UNCHANGED <<overflow_checks, validNonces, transactions, miner, start, i,
                 panic_msg>>

\* the loop body: let (is_correct, hash) = Self::check_block(..., i);
\* if is_correct { return hash; }
LoopBody ==
  /\ minePc = "body"
  /\ LET r == check_block(validNonces, transactions, miner, i)
     IN  /\ calls' = IF Len(calls) < MaxCalls THEN Append(calls, i) ELSE calls
         /\ results' = results \cup {r}
         /\ IF r.is_valid
              THEN ret' = r.hash /\ minePc' = "found"
              ELSE ret' = ret /\ minePc' = "next"
  /\ UNCHANGED <<overflow_checks, validNonces, transactions, miner, start, i,
                 panic_msg>>

\* check_block called again on the (transactions, miner, nonce) mine_block
\* stopped at
CheckBlockAgain ==
  /\ minePc = "found"
  /\ minePc' = "rechecked"
  /\ results' = results \cup {check_block(validNonces, transactions, miner, i)}
  /\ UNCHANGED <<overflow_checks, validNonces, transactions, miner, start, i,
                 calls, ret, panic_msg>>

(***************************************************************************)
(* Specifications.                                                         *)
(***************************************************************************)
SignIdle ==
  /\ sigPc = "start"
  /\ message = ""
  /\ signer = NoKey
  /\ signed = <<>>
  /\ signature = <<>>
  /\ vmessage = ""
  /\ vkey = PublicKey(NoKey)
  /\ is_good = FALSE

TxIdle ==
  /\ txPc = "start"
  /\ transaction = NoTransaction
  /\ built = NoArguments
  /\ tx_good = FALSE

MineIdle ==
  /\ minePc = "idle"
  /\ start = 0
  /\ i = 0
  /\ calls = <<>>
  /\ results = {}
  /\ ret = NoHash
  /\ panic_msg = ""

\* the signing harness
InitSign ==
  /\ SignIdle /\ TxIdle /\ MineIdle /\ edits = 0
  /\ overflow_checks = FALSE /\ validNonces = {}
  /\ transactions = <<>> /\ miner = PublicKey(KeySeq[1])

NextSign ==
  \/ \E msg \in MessageSet, private_key \in PrivateKeys :
       SignMessage(msg, private_key) /\ UNCHANGED <<txVars, mineVars>>
  \/ \E idx \in 1..5, byte \in EditBytes :
       SetSignatureByte(idx, byte) /\ UNCHANGED <<txVars, mineVars>>
  \/ \E byte \in EditBytes :
       ResizeSignature(byte) /\ UNCHANGED <<txVars, mineVars>>
  \/ \E msg \in MessageSet, public_key \in PublicKeys :
       VerifyMessage(msg, public_key) /\ UNCHANGED <<txVars, mineVars>>

SpecSign == InitSign /\ [][NextSign]_vars

\* the transaction harness
InitTx == InitSign

NextTx ==
  \/ \E sender \in PublicKeys, sender_private_key \in PrivateKeys,
        reciver \in PublicKeys, amount \in Amounts, uid \in Uids :
       /\ NewTransaction(sender, sender_private_key, reciver, amount, uid)
       /\ UNCHANGED <<signVars, mineVars>>
  \/ \E amount \in Amounts : SetAmount(amount) /\ UNCHANGED <<signVars, mineVars>>
  \/ \E public_key \in PublicKeys :
       SetReciver(public_key) /\ UNCHANGED <<signVars, mineVars>>
  \/ \E uid \in Uids : SetUid(uid) /\ UNCHANGED <<signVars, mineVars>>
  \/ \E public_key \in PublicKeys :
       SetSender(public_key) /\ UNCHANGED <<signVars, mineVars>>
  \/ VerifyTransaction /\ UNCHANGED <<signVars, mineVars>>

SpecTx == InitTx /\ [][NextTx]_vars

\* mining: any block, any hash function, either build profile
InitMine ==
  /\ SignIdle /\ TxIdle /\ MineIdle /\ edits = 0
  /\ overflow_checks \in BOOLEAN
  /\ validNonces \in SUBSET Nonces
  /\ transactions \in BlockTransactions
  /\ miner \in PublicKeys

NextMine ==
  \/ MineBlock /\ UNCHANGED <<signVars, txVars, edits>>
  \/ RangeFromNext /\ UNCHANGED <<signVars, txVars, edits>>
  \/ LoopBody /\ UNCHANGED <<signVars, txVars, edits>>
  \/ CheckBlockAgain /\ UNCHANGED <<signVars, txVars, edits>>

SpecMine == InitMine /\ [][NextMine]_vars

Init == InitSign \/ InitMine
Next == NextSign \/ NextTx \/ NextMine
Spec == Init /\ [][Next]_vars

(***************************************************************************)
(* Properties.                                                             *)
(***************************************************************************)
\* the holder's private key of a public key
PrivateKeyOf(public_key) ==
  CHOOSE private_key \in PrivateKeys : PublicKey(private_key) = public_key

\* verify_message was called with the untouched output of sign_message
\* and the signer's public key
VerifiedOwnSignature ==
  /\ sigPc = "verified"
  /\ signer # NoKey
  /\ signature = signed
  /\ vkey = PublicKey(signer)

\* C1: for every key pair (sk, pk) of generate_key_pair and every message
\* m, verify_message(m, sign_message(m, sk), pk) returns true.
C1_SignVerifyRoundTrip ==
  (VerifiedOwnSignature /\ vmessage = message) => is_good = TRUE

C1_Witness ==
  VerifiedOwnSignature /\ vmessage = message /\ is_good = TRUE

\* C2: a signature is bound to its message: for every key pair (sk, pk)
\* and messages m1 # m2, verify_message(m2, sign_message(m1, sk), pk)
\* returns false.
C2_SignatureBoundToMessage ==
  (VerifiedOwnSignature /\ vmessage # message) => is_good = FALSE

C2_Witness ==
  VerifiedOwnSignature /\ vmessage # message /\ is_good = FALSE

\* C3: verify_message fails closed: for every message m, public key pk and
\* byte sequence s that is not the signature of m under pk's private key
\* (one byte changed, another length, empty), verify_message(m, s, pk)
\* returns false.
C3_FailsClosedOnBadSignature ==
  (sigPc = "verified" /\ signature # sign_message(vmessage, PrivateKeyOf(vkey)))
    => is_good = FALSE

\* the transaction's four signed fields are those given to Transaction::new
FieldsAsBuilt ==
  /\ transaction.sender = built.sender
  /\ transaction.reciver = built.reciver
  /\ transaction.amount = built.amount
  /\ transaction.uid = built.uid

\* Transaction::new was given the private key of its sender
KeyMatchesSender == built.sender = PublicKey(built.sender_private_key)

\* C4: a transaction built with the sender's own private key verifies, for
\* every amount (zero and negative included) and every uid, as long as no
\* field differs from its value at construction.
C4_FreshTransactionVerifies ==
  (txPc = "verified" /\ KeyMatchesSender /\ FieldsAsBuilt) => tx_good = TRUE

C4_Witness ==
  /\ txPc = "verified" /\ KeyMatchesSender /\ FieldsAsBuilt
  /\ edits = 0
  /\ transaction.amount.class = "finite" /\ transaction.amount.neg
  /\ tx_good = TRUE

\* C5: tamper detection: after any edits that leave one of sender,
\* reciver, amount, uid different from its value at construction, verify()
\* returns false; verify() is true only when all four fields are as built.
C5_TamperDetection ==
  (txPc = "verified" /\ ~FieldsAsBuilt) => tx_good = FALSE

\* C10: Transaction::new does not check the private key against sender: it
\* returns a Transaction holding the given fields and a signature of the
\* key's size, and when the key is another key pair's, verify() on the
\* returned, unedited transaction returns false.
C10_WrongKeyBuildsButFailsVerify ==
  /\ (txPc # "start" /\ edits = 0)
       => /\ FieldsAsBuilt
          /\ Len(transaction.signature) = KeySize(built.sender_private_key)
  /\ (txPc = "verified" /\ edits = 0 /\ ~KeyMatchesSender) => tx_good = FALSE

C10_Witness ==
  /\ txPc = "verified" /\ edits = 0 /\ ~KeyMatchesSender
  /\ FieldsAsBuilt
  /\ tx_good = FALSE

\* the first four bytes of a hash are zero
LeadingZeros(hash) == \A k \in 1..Difficulty : hash[k] = 0

\* C6: every hash mine_block returns has its first 4 bytes zero and is the
\* hash check_block gives for some nonce for which it reports is_valid.
C6_MinedHashMeetsDifficulty ==
  minePc \in {"found", "rechecked"} =>
    /\ LeadingZeros(ret)
    /\ \E nonce \in Nonces :
         LET r == check_block(validNonces, transactions, miner, nonce)
         IN  r.is_valid /\ r.hash = ret

C6_Witness ==
  minePc = "found" /\ Len(calls) >= 2 /\ LeadingZeros(ret)

LeastValid == CHOOSE n \in validNonces : \A m \in validNonces : n <= m

\* C8: mine_block tries the nonces 0, 1, 2, ... in order, none skipped or
\* repeated, and stops at the first valid one: if a valid nonce exists,
\* check_block is never called on a larger nonce and the search ends in
\* Found with the hash of the least valid nonce.
C8_FindsLeastValidNonce ==
  validNonces # {} =>
    /\ \A k \in DOMAIN calls : calls[k] = k - 1 /\ calls[k] <= LeastValid
    /\ minePc # "panicked"
    /\ minePc \in {"found", "rechecked"} =>
         /\ i = LeastValid
         /\ ret = check_block(validNonces, transactions, miner, LeastValid).hash

\* C9: if no nonce satisfies the difficulty, mine_block ends in a panic
\* after trying every nonce once: it returns no hash and never wraps the
\* nonce back to 0.
C9_ExhaustionPanicsAfterEveryNonce ==
  validNonces = {} =>
    /\ minePc \notin {"found", "rechecked"}
    /\ \A k \in DOMAIN calls : calls[k] = k - 1
    /\ minePc = "panicked" => Len(calls) = NumNonces

====
